---- MODULE Spec2Model ----
(***************************************************************************)
(* State machine of the application scheduling and execution logic of      *)
(* src/job_bot.py: the /apply_job route, schedule_application and          *)
(* execute_application, run by concurrent request handlers (Flask serves   *)
(* requests on threads) and by the BackgroundScheduler's worker threads.   *)
(*                                                                         *)
(* Every database statement (query, commit) and every scheduler call is    *)
(* one atomic step; steps of different threads interleave freely.  The     *)
(* user and job tables are fixed: the routes modelled here never write     *)
(* them.  Times are whole seconds.  The scheduler is taken as started, and  *)
(* its callback as running with the database available.                    *)
(***************************************************************************)
EXTENDS Integers, Sequences, FiniteSets, TLC

\* ---------------------------------------------------------------- bounds
NumHandlers == 2        \* concurrent request-handler threads
MaxTime     == 2        \* the clock runs over 0..MaxTime

\* ------------------------------------------------------ program constants
\* scheduler = BackgroundScheduler() and add_job(...) are called with the
\* library's defaults: a pool of ten worker threads, a misfire grace time of
\* one second, and at most one running instance per job id.
NumWorkers       == 10
MisfireGraceTime == 1
MaxInstances     == 1

None == -1              \* Python None for applied_at and for a query's result

Handlers == 1..NumHandlers
Workers  == (NumHandlers + 1)..(NumHandlers + NumWorkers)
Threads  == Handlers \cup Workers

\* rows of the user and job tables, and the ids a request may carry
Users   == {1}
Jobs    == {1}
UserIds == {1, 2}
JobIds  == {1, 2}
Times   == 0..MaxTime

\* The schedule_time field of the request body.  <<>> is an absent or empty
\* field, <<t>> is a text in the format '%Y-%m-%d %H:%M:%S' denoting the
\* instant t, and a longer sequence is a text that is not in that format.
Malformed == <<0, 0>>
ScheduleTimes == {<< >>} \cup {<<t>> : t \in Times} \cup {Malformed}

VARIABLES
    apps,        \* the application table, in id order
    sched,       \* the scheduler's job store: the set of pending jobs
    now,         \* the wall clock, in seconds
    pc,          \* position of each thread
    req,         \* the user and job ids a thread is working on
    response,    \* the last response a handler sent
    found,       \* the row execute_application's query returned
    execCount,   \* number of run_selenium_apply invocations per pair
    superseded,  \* registrations replaced while still pending
    fired        \* registrations whose callback was started

vars == <<apps, sched, now, pc, req, response, found, execCount, superseded,
          fired>>

Pairs == UserIds \X JobIds

NoReq == [user_id |-> 0, job_id |-> 0]

\* ---------------------------------------------------------------- helpers

\* a lookup that accepts the request when either id resolves
ResolvesEither(u, j) == u \in Users \/ j \in Jobs

\* User.query.get(u) and Job.query.get(j) both return a row
Resolves(u, j) == u \in Users /\ j \in Jobs

\* ids of the rows of a pair
RowsOf(u, j) ==
    {i \in DOMAIN apps : apps[i].user_id = u /\ apps[i].job_id = j}

Min(S) == CHOOSE x \in S : \A y \in S : x <= y

\* Application.query.filter_by(user_id=u, job_id=j).first(): the id of the
\* first row of the pair, or None
ExistingApplication(u, j) ==
    IF RowsOf(u, j) = {} THEN None ELSE Min(RowsOf(u, j))

\* a duplicate check that only counts applications already carried out
AlreadyAppliedOnly(u, j) ==
    \E i \in RowsOf(u, j) : apps[i].status = "Applied"

\* the duplicate check of the route: any row of the pair, in any status
AlreadyApplied(u, j) == ExistingApplication(u, j) # None

\* Application(user_id=u, job_id=j): status defaults to 'Pending'
NewApplication(u, j) ==
    [id |-> Len(apps) + 1, user_id |-> u, job_id |-> j,
     status |-> "Pending", applied_at |-> None]

\* an update that sets the status and forgets the timestamp
MarkAppliedNoTimestamp(rec) == [rec EXCEPT !.status = "Applied"]

\* application.status = 'Applied'; application.applied_at = utcnow()
MarkApplied(rec) ==
    [rec EXCEPT !.status = "Applied", !.applied_at = now]

\* Application(user_id, job_id, status='Applied', applied_at=utcnow())
AppliedApplication(u, j) ==
    [id |-> Len(apps) + 1, user_id |-> u, job_id |-> j,
     status |-> "Applied", applied_at |-> now]

\* truthiness of data.get('schedule_time')
IsScheduled(st) == st # << >>

\* datetime.strptime(st, '%Y-%m-%d %H:%M:%S'): the instant, or ValueError
ValueError == -2

\* a parser that reads the leading date and ignores what follows it
strptimeLenient(st) == IF Len(st) >= 1 THEN st[1] ELSE ValueError

strptime(st) == IF Len(st) = 1 THEN st[1] ELSE ValueError

\* f"apply_{user_id}_{job_id}"
JobIdStr(u, j) == <<u, j>>

\* add_job that keeps a pending job of the same id next to the new one
AddJobKeepExisting(t, key, run_time) ==
    sched \cup {[key |-> key, run_time |-> run_time, by |-> t]}

\* scheduler.add_job(..., id=key, replace_existing=True) called by thread t:
\* the job store after the call
AddJob(t, key, run_time) ==
    {job \in sched : job.key # key}
        \cup {[key |-> key, run_time |-> run_time, by |-> t]}

\* the pending registrations a call of add_job for key replaces
Replaced(key) ==
    {[key |-> job.key, by |-> job.by] : job \in {x \in sched : x.key = key}}

\* worker threads running the job with this id
Running(key) ==
    {w \in Workers : pc[w] # "idle" /\ JobIdStr(req[w].user_id, req[w].job_id) = key}

\* the pool hands a job to its first free thread
FreeWorker == Min({w \in Workers : pc[w] = "idle"})

\* ------------------------------------------------------------------- Init
Init ==
    /\ apps = << >>
    /\ sched = {}
    /\ now = 0
    /\ pc = [t \in Threads |-> "idle"]
    /\ req = [t \in Threads |-> NoReq]
    /\ response = [handler |-> 0, message |-> ""]
    /\ found = [t \in Threads |-> None]
    /\ execCount = [p \in Pairs |-> 0]
    /\ superseded = {}
    /\ fired = {}

\* ---------------------------------------------------------------- actions

\* The clock advances.  The scheduler thread wakes up when a job is due, so
\* no second passes while a due job is still in the job store.
Tick ==
    /\ now < MaxTime
    /\ \A job \in sched : job.run_time > now
    /\ now' = now + 1
    /\ UNCHANGED <<apps, sched, pc, req, response, found, execCount,
                   superseded, fired>>

\* jsonify(...) returned by handler t
Respond(t, message) == response' = [handler |-> t, message |-> message]

\* apply_job_route, lines 211-216: read the ids of the request, resolve
\* them, look for an existing application
ApplyJobCheck(t, u, j) ==
    /\ pc[t] = "idle"
    /\ IF ~Resolves(u, j)
       THEN /\ Respond(t, "Invalid IDs")
            /\ UNCHANGED <<pc, req>>
       ELSE IF AlreadyApplied(u, j)
       THEN /\ Respond(t, "Already applied")
            /\ UNCHANGED <<pc, req>>
       ELSE /\ UNCHANGED response
            /\ req' = [req EXCEPT ![t] = [user_id |-> u, job_id |-> j]]
            /\ pc' = [pc EXCEPT ![t] = "insert"]
    /\ UNCHANGED <<apps, sched, now, found, execCount, superseded, fired>>

\* apply_job_route, lines 217-218: insert the Pending row and commit
ApplyJobInsert(t) ==
    /\ pc[t] = "insert"
    /\ apps' = Append(apps, NewApplication(req[t].user_id, req[t].job_id))
    /\ pc' = [pc EXCEPT ![t] = "branch"]
    /\ UNCHANGED <<sched, now, req, response, found, execCount, superseded,
                   fired>>

\* execute_application, lines 127-131, entered by thread t: resolve the ids,
\* return when one is missing, otherwise call run_selenium_apply
ExecuteApplication(t, u, j) ==
    IF ~Resolves(u, j)
    THEN /\ pc' = [pc EXCEPT ![t] = "idle"]
         /\ req' = [req EXCEPT ![t] = NoReq]
         /\ IF t \in Handlers
            THEN Respond(t, "Applied immediately")
            ELSE UNCHANGED response
         /\ UNCHANGED execCount
    ELSE /\ pc' = [pc EXCEPT ![t] = "selenium"]
         /\ req' = [req EXCEPT ![t] = [user_id |-> u, job_id |-> j]]
         /\ execCount' = [execCount EXCEPT ![<<u, j>>] = @ + 1]
         /\ UNCHANGED response

\* apply_job_route, lines 219-227: read schedule_time (st) from the request;
\* schedule, reject the datetime, or call execute_application
ApplyJobBranch(t, st) ==
    /\ pc[t] = "branch"
    /\ LET key == JobIdStr(req[t].user_id, req[t].job_id)
       IN IF IsScheduled(st)
          THEN IF strptime(st) # ValueError
               THEN /\ sched' = AddJob(t, key, strptime(st))
                    /\ superseded' = superseded \cup Replaced(key)
                    /\ Respond(t, "Scheduled")
                    /\ pc' = [pc EXCEPT ![t] = "idle"]
                    /\ req' = [req EXCEPT ![t] = NoReq]
                    /\ UNCHANGED execCount
               ELSE /\ Respond(t, "Invalid datetime")
                    /\ pc' = [pc EXCEPT ![t] = "idle"]
                    /\ req' = [req EXCEPT ![t] = NoReq]
                    /\ UNCHANGED <<sched, superseded, execCount>>
          ELSE /\ ExecuteApplication(t, req[t].user_id, req[t].job_id)
               /\ UNCHANGED <<sched, superseded>>
    /\ UNCHANGED <<apps, now, found, fired>>

\* The scheduler hands a due job to the pool, which runs
\* execute_application(user_id, job_id) on a free thread, and removes the job
\* from the job store (a date trigger has no next run).
FireJob(job) ==
    /\ job \in sched
    /\ job.run_time <= now
    /\ now - job.run_time <= MisfireGraceTime
    /\ Cardinality(Running(job.key)) < MaxInstances
    /\ \E w \in Workers : pc[w] = "idle"
    /\ sched' = sched \ {job}
    /\ fired' = fired \cup {[key |-> job.key, by |-> job.by]}
    /\ ExecuteApplication(FreeWorker, job.key[1], job.key[2])
    /\ UNCHANGED <<apps, now, found, superseded>>

\* A due job that is later than the misfire grace time, or whose id already
\* has MaxInstances running instances, is skipped and removed.
SkipJob(job) ==
    /\ job \in sched
    /\ job.run_time <= now
    /\ \/ now - job.run_time > MisfireGraceTime
       \/ Cardinality(Running(job.key)) >= MaxInstances
    /\ sched' = sched \ {job}
    /\ UNCHANGED <<apps, now, pc, req, response, found, execCount,
                   superseded, fired>>

\* execute_application is over and its caller returns
Finished(t) ==
    /\ pc' = [pc EXCEPT ![t] = "idle"]
    /\ req' = [req EXCEPT ![t] = NoReq]

\* run_selenium_apply returns (line 131) and the pair's application is
\* queried (line 132)
SeleniumReturn(t) ==
    /\ pc[t] = "selenium"
    /\ found' = [found EXCEPT ![t] =
                    ExistingApplication(req[t].user_id, req[t].job_id)]
    /\ pc' = [pc EXCEPT ![t] = "commit"]
    /\ UNCHANGED <<apps, sched, now, req, response, execCount, superseded,
                   fired>>

\* a handler of the executor's exception that records Failed on the row the
\* pair's query returns, whatever its status
SeleniumRaiseMarksFailed(t) ==
    /\ pc[t] = "selenium"
    /\ Finished(t)
    /\ LET i == ExistingApplication(req[t].user_id, req[t].job_id)
       IN apps' = IF i = None THEN apps
                  ELSE [apps EXCEPT ![i] =
                          [@ EXCEPT !.status = "Failed", !.applied_at = now]]
    /\ IF t \in Handlers
       THEN Respond(t, "Internal Server Error")
       ELSE UNCHANGED response
    /\ UNCHANGED <<sched, now, found, execCount, superseded, fired>>

\* a cleanup block that records Applied on the pair's row although the
\* executor raised
SeleniumRaiseMarksApplied(t) ==
    /\ pc[t] = "selenium"
    /\ Finished(t)
    /\ LET i == ExistingApplication(req[t].user_id, req[t].job_id)
       IN apps' = IF i = None THEN apps
                  ELSE [apps EXCEPT ![i] = MarkApplied(@)]
    /\ IF t \in Handlers
       THEN Respond(t, "Internal Server Error")
       ELSE UNCHANGED response
    /\ UNCHANGED <<sched, now, found, execCount, superseded, fired>>

\* run_selenium_apply raises: nothing catches the exception, so it leaves
\* execute_application; a handler answers 500, a worker thread logs it
SeleniumRaise(t) ==
    /\ pc[t] = "selenium"
    /\ Finished(t)
    /\ IF t \in Handlers
       THEN Respond(t, "Internal Server Error")
       ELSE UNCHANGED response
    /\ UNCHANGED <<apps, sched, now, found, execCount, superseded, fired>>

\* execute_application that returns without writing the outcome
ExecuteCommitNoWrite(t) ==
    /\ pc[t] = "commit"
    /\ found' = [found EXCEPT ![t] = None]
    /\ IF t \in Handlers
       THEN Respond(t, "Applied immediately")
       ELSE UNCHANGED response
    /\ Finished(t)
    /\ UNCHANGED <<apps, sched, now, execCount, superseded, fired>>

\* execute_application, lines 133-140: update the row found or insert an
\* Applied row, commit; then the caller's return (line 228 for a handler)
ExecuteCommit(t) ==
    /\ pc[t] = "commit"
    /\ IF found[t] # None
       THEN apps' = [apps EXCEPT ![found[t]] = MarkApplied(@)]
       ELSE apps' = Append(apps,
                       AppliedApplication(req[t].user_id, req[t].job_id))
    /\ found' = [found EXCEPT ![t] = None]
    /\ IF t \in Handlers
       THEN Respond(t, "Applied immediately")
       ELSE UNCHANGED response
    /\ Finished(t)
    /\ UNCHANGED <<sched, now, execCount, superseded, fired>>

Next ==
    \/ Tick
    \/ \E t \in Handlers, u \in UserIds, j \in JobIds : ApplyJobCheck(t, u, j)
    \/ \E t \in Handlers : ApplyJobInsert(t)
    \/ \E t \in Handlers, st \in ScheduleTimes : ApplyJobBranch(t, st)
    \/ \E job \in sched : FireJob(job)
    \/ \E job \in sched : SkipJob(job)
    \/ \E t \in Threads : SeleniumReturn(t)
    \/ \E t \in Threads : SeleniumRaise(t)
    \/ \E t \in Threads : ExecuteCommit(t)

Spec == Init /\ [][Next]_vars

TypeOK ==
    /\ \A i \in DOMAIN apps : apps[i].id = i
    /\ now \in Times
    /\ \A t \in Threads : pc[t] \in {"idle", "insert", "branch", "selenium",
                                     "commit"}

\* ----------------------------------------------------------------- claims

Terminal == {"Applied", "Failed"}

\* the row the store returns for a pair has a terminal status
IsTerminal(u, j) ==
    /\ ExistingApplication(u, j) # None
    /\ apps[ExistingApplication(u, j)].status \in Terminal

\* C1: in every reachable state each (user, job) pair has at most one
\* application row, also when requests for the pair interleave between the
\* existence check and the insert.
AtMostOneRecordPerPair ==
    \A p \in Pairs : Cardinality(RowsOf(p[1], p[2])) <= 1

\* C2: over any interleaving of requests and timer firings the executor
\* (run_selenium_apply) is invoked at most once per pair.
ExecutorAtMostOncePerPair ==
    \A p \in Pairs : execCount[p] <= 1

\* C3: execute_application entered for a pair whose row is already terminal
\* is a no-op: the executor is not invoked, and the row's status and
\* applied_at stay as they are.
ExecuteOnTerminalIsNoOp ==
    [][\A t \in Threads :
          /\ (pc[t] # "selenium" /\ pc'[t] = "selenium"
                 /\ IsTerminal(req'[t].user_id, req'[t].job_id))
               => execCount' = execCount
          /\ (pc[t] = "commit" /\ pc'[t] # "commit" /\ found[t] # None
                 /\ apps[found[t]].status \in Terminal)
               => apps' = apps]_vars

\* C4: in every step a row's status changes only from Pending to Applied or
\* from Pending to Failed; a row that is Applied or Failed keeps its status,
\* and no row disappears.
StatusOnlyLeavesPending ==
    [][\A i \in DOMAIN apps :
          /\ i \in DOMAIN apps'
          /\ apps'[i].status # apps[i].status
               => apps[i].status = "Pending" /\ apps'[i].status \in Terminal]_vars

\* C4 witness: execute_application is about to write a row that another
\* execution has already made Applied.
WriteOnAppliedRow ==
    \E t \in Threads :
        /\ pc[t] = "commit" /\ found[t] # None
        /\ apps[found[t]].status = "Applied"

\* C5: when the executor raises, the pair's row ends Failed with applied_at
\* set, for a handler and for a timer-fired run alike.
ExecutorFailureRecordsFailed ==
    [][\A t \in Threads :
          (pc[t] = "selenium" /\ pc'[t] = "idle")
            => LET i == ExistingApplication(req[t].user_id, req[t].job_id)
               IN /\ i # None
                  /\ apps'[i].status = "Failed"
                  /\ apps'[i].applied_at # None]_vars

\* C6: in every reachable state a row has applied_at set exactly when its
\* status is Applied or Failed.
AppliedAtIffTerminal ==
    \A i \in DOMAIN apps :
        (apps[i].applied_at # None) <=> (apps[i].status \in Terminal)

\* C6 witness: an Applied row with its timestamp next to a Pending row
\* without one.
AppliedAndPendingRows ==
    \E i, k \in DOMAIN apps :
        /\ apps[i].status = "Applied" /\ apps[i].applied_at # None
        /\ apps[k].status = "Pending" /\ apps[k].applied_at = None

\* C7: a request for a pair that already has a row, in any status and with
\* or without a schedule_time (the route has not read it yet), is answered
\* 'Already applied' and leaves the application table and the job store
\* unchanged and the executor uninvoked.
DuplicateRequestRejected ==
    [][\A t \in Handlers, u \in UserIds, j \in JobIds :
          (pc[t] = "idle" /\ RowsOf(u, j) # {} /\ ApplyJobCheck(t, u, j))
            => /\ response' = [handler |-> t, message |-> "Already applied"]
               /\ pc'[t] = "idle"
               /\ UNCHANGED <<apps, sched, execCount, fired, superseded>>]_vars

\* C7 witness: a request was answered 'Already applied' while the pair's
\* only row is Pending and its scheduled job has not fired.
DuplicateOfScheduledPending ==
    /\ response.message = "Already applied"
    /\ Len(apps) = 1 /\ apps[1].status = "Pending"
    /\ \E job \in sched : job.key = JobIdStr(apps[1].user_id, apps[1].job_id)

\* C8: a request whose user id or job id does not resolve is answered
\* 'Invalid IDs'; it creates no row, registers no job and does not invoke
\* the executor.
UnresolvedRequestRejected ==
    [][\A t \in Handlers, u \in UserIds, j \in JobIds :
          (/\ pc[t] = "idle" /\ (u \notin Users \/ j \notin Jobs)
           /\ ApplyJobCheck(t, u, j))
            => /\ response' = [handler |-> t, message |-> "Invalid IDs"]
               /\ pc'[t] = "idle"
               /\ UNCHANGED <<apps, sched, execCount, fired, superseded>>]_vars

\* C8 witness: a request was answered 'Invalid IDs' and there is no row, no
\* job and no executor invocation.
UnresolvedRejectedNothingCreated ==
    /\ response.message = "Invalid IDs"
    /\ apps = << >> /\ sched = {}
    /\ \A p \in Pairs : execCount[p] = 0

\* C9: a request without schedule_time for a resolvable pair without a row
\* executes synchronously: it goes from the insert straight into the
\* executor without registering a job, and when the executor succeeds the
\* call returns 'Applied immediately' with the row the store returns for the
\* pair Applied and its applied_at set, and no job registered by the call.
ImmediateRequestAppliesSynchronously ==
    [][\A t \in Handlers :
          /\ (pc[t] = "branch" /\ ApplyJobBranch(t, << >>))
               => /\ pc'[t] = "selenium"
                  /\ sched' = sched
                  /\ execCount'[<<req[t].user_id, req[t].job_id>>]
                        = execCount[<<req[t].user_id, req[t].job_id>>] + 1
          /\ (pc[t] = "commit" /\ pc'[t] # "commit")
               => /\ response' = [handler |-> t,
                                  message |-> "Applied immediately"]
                  /\ sched' = sched
                  /\ \A r \in sched' \cup fired' \cup superseded' :
                        r.key = JobIdStr(req[t].user_id, req[t].job_id)
                          => r.by # t
                  /\ LET u == req[t].user_id
                         j == req[t].job_id
                         rows == {i \in DOMAIN apps' :
                                    apps'[i].user_id = u /\ apps'[i].job_id = j}
                     IN /\ rows # {}
                        /\ apps'[Min(rows)].status = "Applied"
                        /\ apps'[Min(rows)].applied_at # None]_vars

\* C9 witness: one immediate request has returned: its row is Applied and
\* the scheduler was never used.
ImmediateApplied ==
    /\ response.message = "Applied immediately"
    /\ Len(apps) = 1
    /\ apps[1].status = "Applied" /\ apps[1].applied_at # None
    /\ sched = {} /\ fired = {} /\ superseded = {}

RescheduleRequestSupersedes ==
    [][\A t \in Handlers, u \in UserIds, j \in JobIds :
          /\ (/\ pc[t] = "idle"
              /\ \E job \in sched : job.key = JobIdStr(u, j)
              /\ ApplyJobCheck(t, u, j))
               => pc'[t] = "insert"
          /\ \A s \in Times :
                (/\ pc[t] = "branch" /\ req[t] = [user_id |-> u, job_id |-> j]
                 /\ \E job \in sched : job.key = JobIdStr(u, j)
                 /\ ApplyJobBranch(t, <<s>>))
                  => {job \in sched' : job.key = JobIdStr(u, j)}
                        = {[key |-> JobIdStr(u, j), run_time |-> s, by |-> t]}]_vars

\* C12: a request whose schedule_time cannot be parsed is answered 'Invalid
\* datetime' by the handler itself; it registers no job and does not invoke
\* the executor.
UnparsableScheduleRejected ==
    [][\A t \in Handlers, st \in ScheduleTimes :
          (pc[t] = "branch" /\ Len(st) > 1 /\ ApplyJobBranch(t, st))
            => /\ response' = [handler |-> t, message |-> "Invalid datetime"]
               /\ pc'[t] = "idle"
               /\ UNCHANGED <<sched, execCount, fired, superseded>>]_vars

\* C12 witness: a request was answered 'Invalid datetime'; the job store is
\* empty, nothing has fired and the executor was never invoked.
InvalidDatetimeNothingScheduled ==
    /\ response.message = "Invalid datetime"
    /\ sched = {} /\ fired = {} /\ superseded = {}
    /\ \A p \in Pairs : execCount[p] = 0

\* C13: every row is created Pending with applied_at unset, by a request
\* handler and only on the first apply request for its pair;
\* execute_application never creates a row and changes an existing one only
\* once the executor has returned.
RowsCreatedPendingByFirstRequest ==
    [][/\ \A i \in DOMAIN apps' \ DOMAIN apps :
             /\ apps'[i].status = "Pending" /\ apps'[i].applied_at = None
             /\ RowsOf(apps'[i].user_id, apps'[i].job_id) = {}
             /\ \E t \in Handlers :
                   /\ pc[t] = "insert" /\ pc'[t] = "branch"
                   /\ req[t] = [user_id |-> apps'[i].user_id,
                                job_id |-> apps'[i].job_id]
       /\ \A t \in Threads :
             (pc[t] \in {"selenium", "commit"} /\ pc'[t] # pc[t])
               => Len(apps') = Len(apps)
       /\ \A i \in DOMAIN apps :
             (i \in DOMAIN apps' /\ apps'[i] # apps[i])
               => \E t \in Threads : pc[t] = "commit" /\ found[t] = i]_vars

\* C14: a registered job whose run time is already past when it is
\* registered or first examined still fires: a job leaves the job store only
\* by being started or by being replaced, never by being dropped.
RegisteredJobNeverDropped ==
    [][\A job \in sched :
          job \notin sched'
            => [key |-> job.key, by |-> job.by] \in fired' \cup superseded']_vars

\* C16: a request with a well-formed future schedule_time returns without
\* invoking the executor; while its job is pending and not yet due every row
\* of the pair is Pending; and the start of the job invokes
\* execute_application for the pair once and takes the job out of the job
\* store.
ScheduledRequestPendingUntilFired ==
    /\ [](\A job \in sched :
            job.run_time > now
              => \A i \in RowsOf(job.key[1], job.key[2]) :
                    apps[i].status = "Pending")
    /\ [][/\ \A t \in Handlers, s \in Times :
                (pc[t] = "branch" /\ s > now /\ ApplyJobBranch(t, <<s>>))
                  => /\ execCount' = execCount
                     /\ response' = [handler |-> t, message |-> "Scheduled"]
                     /\ pc'[t] = "idle"
                     /\ \E job \in sched' : job.by = t /\ job.run_time = s
          /\ \A r \in fired' \ fired :
                /\ execCount'[r.key] = execCount[r.key] + 1
                /\ \A job \in sched' : ~(job.key = r.key /\ job.by = r.by)
                /\ \A q \in fired' \ fired : q = r]_vars

\* C17: a request answered with an error leaves the application table as it
\* was before the call: the 'Invalid IDs' and 'Already applied' answers
\* change no row, and when a request is answered 'Invalid datetime' the
\* pair, which had no row when the request passed the duplicate check, has
\* no row left behind.
ErrorResponseLeavesStoreUnchanged ==
    [][\A t \in Handlers :
          /\ (pc[t] = "idle" /\ pc'[t] = "idle" /\ response' # response
                 /\ response'.handler = t)
               => apps' = apps
          /\ (pc[t] = "branch" /\ pc'[t] = "idle"
                 /\ response' = [handler |-> t, message |-> "Invalid datetime"])
               => {i \in DOMAIN apps' :
                      /\ apps'[i].user_id = req[t].user_id
                      /\ apps'[i].job_id = req[t].job_id} = {}]_vars

\* C18: a row has status Applied only if the executor was invoked for its
\* pair and returned before the status was written: a status becomes
\* Applied only in the commit of a thread whose executor call for that pair
\* has returned, a thread reaches that commit only by the executor's return,
\* and an executor call that raises writes nothing.
AppliedOnlyAfterExecutorReturned ==
    /\ [](\A t \in Threads :
            pc[t] \in {"selenium", "commit"}
              => execCount[<<req[t].user_id, req[t].job_id>>] >= 1)
    /\ [][/\ \A i \in DOMAIN apps' :
                (/\ apps'[i].status = "Applied"
                 /\ (i \notin DOMAIN apps \/ apps[i].status # "Applied"))
                  => \E t \in Threads :
                        /\ pc[t] = "commit" /\ pc'[t] = "idle"
                        /\ req[t] = [user_id |-> apps'[i].user_id,
                                     job_id |-> apps'[i].job_id]
          /\ \A t \in Threads :
                /\ (pc'[t] = "commit" /\ pc[t] # "commit")
                     => pc[t] = "selenium"
                /\ (pc[t] = "selenium" /\ pc'[t] = "idle") => apps' = apps]_vars

\* C18 witness: the pair's only row is Applied and the execution that wrote
\* it was started by a fired job.
AppliedByFiredJob ==
    /\ Len(apps) = 1 /\ apps[1].status = "Applied"
    /\ fired # {}
    /\ execCount[<<apps[1].user_id, apps[1].job_id>>] = 1

\* C19: every row eventually reaches Applied or Failed: no row is left
\* Pending with neither a pending job nor a request or execution in progress
\* for its pair.
PendingRowHasJobOrExecution ==
    \A i \in DOMAIN apps :
        apps[i].status = "Pending"
          => \/ \E job \in sched :
                   job.key = JobIdStr(apps[i].user_id, apps[i].job_id)
             \/ \E t \in Threads :
                   /\ pc[t] # "idle"
                   /\ req[t] = [user_id |-> apps[i].user_id,
                                job_id |-> apps[i].job_id]
====
